---- MODULE Spec2Model ----
(***************************************************************************)
(* PollSpace: real-time event fan-out and notification delivery.           *)
(*                                                                         *)
(* The module models views of the program over one set of variables:       *)
(*   Spec        the REST handlers of backend/server.js that create,       *)
(*               mutate and delete notification records; a handler is an  *)
(*               action on the collections, with its HTTP response and its *)
(*               socket.io emits given as operators of the state it runs   *)
(*               in;                                                       *)
(*   SpecSocket  the socket.io session registry (handshake, rooms) and the *)
(*               newNotification push of createNotification;               *)
(*   SpecClient  the React notification reducer of NotificationContext.js  *)
(*               fed by pushes, fetch responses and local mutations;       *)
(*   SpecBacklog the notification list of a user who is mostly offline     *)
(*               while notifications pile up;                              *)
(*   SpecPoll    votes, status changes and the closure job on a poll, with *)
(*               the sockets their events are dispatched to;               *)
(*   SpecFlow    the path of one vote: poll created, vote cast, creator    *)
(*               notified and pushed to, notification marked read;         *)
(*   SpecEdit    edits and deletions of the polls and comments that        *)
(*               notifications refer to;                                   *)
(*   SpecLoop    the mark-read exchange between client and server;         *)
(*   SpecVote    the vote handler as its steps between awaits, several     *)
(*               requests at a time, and the poll edit handler;            *)
(*   SpecBreaker the CircuitBreaker of the client's utils/api.js.          *)
(***************************************************************************)
EXTENDS Integers, Sequences, FiniteSets, TLC

VARIABLES
    polls,          \* Poll collection: poll id -> document
    votes,          \* Vote collection: set of vote documents
    comments,       \* Comment collection: comment id -> document
    notifications,  \* Notification collection, in insertion order
    nextPoll,       \* number of poll ids generated so far
    nextVote,       \* number of vote ids generated so far
    nextComment,    \* number of comment ids generated so far
    nextNotif,      \* number of notification ids generated so far
    emitted,        \* socket.io emits performed by the last step
    conns,          \* live sockets: connection -> socket.user.id
    rooms,          \* room membership: connection -> set of room names
    socketLog,      \* last line logged by the socket layer
    cstate,         \* client reducer state (notifications, unreadCount, ...)
    pushQ,          \* newNotification events in flight to the client
    readEvt,        \* notificationRead events in flight to the client
    fetchResp,      \* GET /notifications responses in flight to the client
    restResp,       \* PATCH/DELETE responses in flight to the client
    cronJobs,       \* running closure jobs: the expired polls each has yet to close
    voteReqs,       \* vote requests between their checks and their saves
    breaker,        \* the client's CircuitBreaker object
    clock,          \* Date.now() of the client, in ticks
    inExecute       \* operations running inside CircuitBreaker.execute

serverVars == <<polls, votes, comments, notifications,
                nextPoll, nextVote, nextComment, nextNotif>>
socketVars == <<conns, rooms, socketLog, emitted>>
clientVars == <<cstate, pushQ, readEvt, fetchResp, restResp>>
auxVars == <<voteReqs, breaker, clock, inExecute>>
vars == <<serverVars, socketVars, clientVars, cronJobs, auxVars>>

---------------------------------------------------------------------------
(* Bounds of the model *)
MaxDocs == 2        \* polls, votes and comments created in a behaviour
MaxNotifs == 2      \* notifications created in a behaviour
MaxConns == 2       \* sockets of SpecSocket
MaxPushes == 1      \* notifications created in SpecSocket and SpecClient
MaxInFlight == 1    \* REST responses in flight to the client
MaxBacklog == 51    \* notifications created in SpecBacklog
MaxRoutePolls == 1  \* polls created in SpecPoll
MaxRouteNotifs == 3 \* notifications created in SpecPoll
MaxJobs == 1        \* closure jobs running at the same time
MaxVotes == 2       \* votes saved in SpecVote
MaxRequests == 2    \* vote requests being served at the same time
MaxClock == 4       \* ticks of the client's clock
MaxExecute == 1     \* operations inside CircuitBreaker.execute at the same time

Users == {"u1", "u2"}
System == "system"                 \* the cron job acts under no user identity
Options == {"o1", "o2"}
OptionInputs == {"o1", "bad"}      \* option_id values of vote requests
Titles == {"t1"}
StatusInputs == {"active", "closed", "draft"}
MultiInputs == {FALSE}             \* allow_multiple_votes of a new poll
EndsInputs == {"null", "date"}      \* ends_at of a new poll: none, or a date

PollId(i) == "p" \o ToString(i)
CommentId(i) == "c" \o ToString(i)
NotifId(i) == "n" \o ToString(i)
VoteId(i) == "v" \o ToString(i)
NoParent == "null"
ClearAllPath == "clear-all"

---------------------------------------------------------------------------
(* Rooms and emits *)
UserRoom(userId) == "user_" \o userId      \* `user_${userId}`
PollRoom(pollId) == "poll_" \o pollId      \* `poll_${pollId}`
AllSockets == "*"                          \* io.emit: every connected socket

\* mutant: every emit is a broadcast
MembersAll(room) == DOMAIN conns

\* io.to(room): the sockets in the room; io.emit: every socket
Members(room) ==
    IF room = AllSockets THEN DOMAIN conns
    ELSE {c \in DOMAIN conns : room \in rooms[c]}

Emit(room, event, payload) ==
    [room |-> room, event |-> event, payload |-> payload, to |-> Members(room)]

Reply(op, status, body) ==
    [op |-> op, status |-> status, body |-> body]

\* an error response: res.status(code).json({ error })
Error(op, status) == Reply(op, status, "error")

---------------------------------------------------------------------------
(* Notification helper functions *)
\* mutant: every kind gets the schema's default priority
GetNotificationPriorityDefault(type) == "low"

GetNotificationPriority(type) ==
    CASE type = "system" -> "high"
      [] type \in {"reply", "comment", "poll_closed"} -> "medium"
      [] OTHER -> "low"

Name(data, field) ==
    IF field \in DOMAIN data /\ data[field] # "" THEN data[field] ELSE "Someone"

FormatNotificationMessage(type, data) ==
    CASE type = "vote" -> <<"voted on your poll", Name(data, "voterName"), data.pollTitle>>
      [] type = "comment" -> <<"commented on your poll", Name(data, "commenterName"), data.pollTitle>>
      [] type = "reply" -> <<"replied to your comment on", Name(data, "replierName"), data.pollTitle>>
      [] type = "comment_like" -> <<"liked your comment on", Name(data, "likerName"), data.pollTitle>>
      [] type = "poll_created" -> <<"has been created successfully", "Your poll", data.pollTitle>>
      [] type = "poll_closed" ->
            IF "reason" \in DOMAIN data /\ data.reason = "automatic_closure"
            THEN <<"has been automatically closed", "Your poll", data.pollTitle>>
            ELSE <<"has been closed", "Your poll", data.pollTitle>>
      [] OTHER -> <<"New notification", "", "">>

\* createNotification: the record it saves and the push it emits
CreateNotification(type, data, userId) ==
    LET saved == [id |-> NotifId(nextNotif + 1),
                  userId |-> userId,
                  type |-> type,
                  message |-> FormatNotificationMessage(type, data),
                  pollId |-> data.pollId,
                  priority |-> GetNotificationPriority(type),
                  isRead |-> FALSE]
    IN  [saved |-> saved,
         emits |-> {Emit(UserRoom(userId), "newNotification", saved.id)}]

CanNotify == nextNotif < MaxNotifs

\* generateId has another poll, vote or comment id to hand out
CanCreate == nextPoll + nextVote + nextComment < MaxDocs

---------------------------------------------------------------------------
(* REST handlers of backend/server.js.  For a handler H, HStatus is the    *)
(* status code of its response in the current state, H the action on the   *)
(* collections taken when the request succeeds (a request answered with an *)
(* error changes nothing), HEmits the socket.io emits of that action.      *)

\* POST /api/polls.  The poll's manual_status_override flag is left out: the
\* handlers below only write it, its one reader is PUT /api/polls/:id.
CreatePollStatus(u, title, status, ends, multi) == 201

CreatePollNotification(u, title) ==
    CreateNotification("poll_created",
                       [pollTitle |-> title, pollId |-> PollId(nextPoll + 1)], u)

CreatePoll(u, title, status, ends, multi) ==
    /\ LET id == PollId(nextPoll + 1)
           poll == [creator |-> u,
                    title |-> title,
                    status |-> status,
                    ends_at |-> ends,
                    allow_multiple_votes |-> multi,
                    options |-> [o \in Options |-> 0],
                    total_votes |-> 0,
                    comments_count |-> 0]
       IN  /\ polls' = polls @@ (id :> poll)
           /\ nextPoll' = nextPoll + 1
           /\ notifications' = Append(notifications,
                                      CreatePollNotification(u, title).saved)
           /\ nextNotif' = nextNotif + 1
    /\ UNCHANGED <<votes, comments, nextVote, nextComment>>

\* mutant: newPoll is broadcast for every new poll
CreatePollEmitsAlways(u, title, status, ends, multi) ==
    CreatePollNotification(u, title).emits \cup
    {Emit(AllSockets, "newPoll", PollId(nextPoll + 1))}

CreatePollEmits(u, title, status, ends, multi) ==
    CreatePollNotification(u, title).emits \cup
    (IF status # "draft"
     THEN {Emit(AllSockets, "newPoll", PollId(nextPoll + 1))} ELSE {})

\* PATCH /api/polls/:id
PatchPollStatusStatus(u, p, status) ==
    IF p \notin DOMAIN polls THEN 404
    ELSE IF polls[p].creator # u THEN 403
    ELSE 200

PatchPollNotification(u, p) ==
    CreateNotification("poll_closed",
                       [pollTitle |-> polls[p].title, pollId |-> p], u)

PatchPollStatus(u, p, status) ==
    /\ PatchPollStatusStatus(u, p, status) = 200
    /\ LET old == polls[p]
           cleared == IF (status = "active" /\ old.status = "closed")
                         \/ status = "closed"
                      THEN [old EXCEPT !.ends_at = "null"]
                      ELSE old
       IN  polls' = [polls EXCEPT ![p] = [cleared EXCEPT !.status = status]]
    /\ IF status = "closed"
       THEN /\ notifications' = Append(notifications,
                                       PatchPollNotification(u, p).saved)
            /\ nextNotif' = nextNotif + 1
       ELSE UNCHANGED <<notifications, nextNotif>>
    /\ UNCHANGED <<votes, comments, nextPoll, nextVote, nextComment>>

PatchPollStatusEmits(u, p, status) ==
    (IF status = "closed" THEN PatchPollNotification(u, p).emits ELSE {}) \cup
    (IF status # "draft"
     THEN {Emit(PollRoom(p), "pollUpdate", p), Emit(AllSockets, "pollUpdate", p)}
     ELSE {})

\* PUT /api/polls/:id: the full edit of a poll. opts is the options array of
\* the request body as the handler normalizes it: option -> votes.
PutPollStatus(u, p, title, status, ends, multi, opts) ==
    IF p \notin DOMAIN polls THEN 404
    ELSE IF polls[p].creator # u THEN 403
    ELSE IF polls[p].status = "closed" THEN 403
    ELSE 200

\* mutant: an edit that also rewrites the title in the poll's notifications
PutPollRewrites(u, p, title, status, ends, multi, opts) ==
    /\ PutPollStatus(u, p, title, status, ends, multi, opts) = 200
    /\ polls' = [polls EXCEPT ![p].title = title, ![p].status = status,
                              ![p].ends_at = ends, ![p].options = opts]
    /\ notifications' = [i \in 1..Len(notifications) |->
                            IF notifications[i].pollId = p
                            THEN [notifications[i] EXCEPT !.message[3] = title]
                            ELSE notifications[i]]
    /\ UNCHANGED <<votes, comments, nextPoll, nextVote, nextComment, nextNotif>>

\* The block that reactivates an automatically closed poll compares the
\* ends_at it has just assigned with itself (<= now and > now): it never runs.
PutPoll(u, p, title, status, ends, multi, opts) ==
    /\ PutPollStatus(u, p, title, status, ends, multi, opts) = 200
    /\ polls' = [polls EXCEPT
                    ![p].title = title,
                    ![p].status = status,
                    ![p].ends_at = ends,
                    ![p].allow_multiple_votes =
                        IF polls[p].total_votes = 0 THEN multi ELSE @,
                    ![p].options = opts]
    /\ UNCHANGED <<votes, comments, notifications,
                   nextPoll, nextVote, nextComment, nextNotif>>

PutPollEmits(u, p, title, status, ends, multi, opts) ==
    IF status # "draft"
    THEN {Emit(PollRoom(p), "pollUpdate", p), Emit(AllSockets, "pollUpdate", p)}
    ELSE {}

\* DELETE /api/polls/:id
DeletePollStatus(u, p) ==
    IF p \notin DOMAIN polls THEN 404
    ELSE IF polls[p].creator # u THEN 403
    ELSE 200

DeletePoll(u, p) ==
    /\ DeletePollStatus(u, p) = 200
    /\ votes' = {v \in votes : v.poll_id # p}
    /\ comments' = [c \in {d \in DOMAIN comments : comments[d].poll_id # p}
                       |-> comments[c]]
    /\ polls' = [q \in DOMAIN polls \ {p} |-> polls[q]]
    /\ UNCHANGED <<notifications, nextPoll, nextVote, nextComment, nextNotif>>

\* POST /api/polls/:id/vote
VoteStatus(u, p, o) ==
    IF p \notin DOMAIN polls THEN 404
    ELSE IF polls[p].status # "active" THEN 403
    ELSE IF ~polls[p].allow_multiple_votes
            /\ \E v \in votes : v.user = u /\ v.poll_id = p
         THEN 400
    ELSE IF o \notin DOMAIN polls[p].options THEN 400
    ELSE 200

\* mutant: the vote handler without its actor check
VoteNotifiesAlways(u, poll) == TRUE

\* the vote handler notifies the poll creator unless the voter is the creator
VoteNotifies(u, poll) == poll.creator # u

\* mutant: the notification of a vote goes to the voter
VoteNotificationToVoter(u, p) ==
    CreateNotification("vote",
                       [voterName |-> u, pollTitle |-> polls[p].title, pollId |-> p],
                       u)

VoteNotification(u, p) ==
    CreateNotification("vote",
                       [voterName |-> u, pollTitle |-> polls[p].title, pollId |-> p],
                       polls[p].creator)

\* vote.save() and poll.save()
VoteRecorded(u, p, o) ==
    /\ votes' = votes \cup {[id |-> VoteId(nextVote + 1), user |-> u,
                             poll_id |-> p, option_id |-> o]}
    /\ nextVote' = nextVote + 1
    /\ polls' = [polls EXCEPT ![p].options[o] = @ + 1, ![p].total_votes = @ + 1]

Vote(u, p, o) ==
    /\ VoteStatus(u, p, o) = 200
    /\ VoteRecorded(u, p, o)
    /\ IF VoteNotifies(u, polls[p])
       THEN /\ notifications' = Append(notifications, VoteNotification(u, p).saved)
            /\ nextNotif' = nextNotif + 1
       ELSE UNCHANGED <<notifications, nextNotif>>
    /\ UNCHANGED <<comments, nextPoll, nextComment>>

VoteEmits(u, p, o) ==
    (IF VoteNotifies(u, polls[p]) THEN VoteNotification(u, p).emits ELSE {}) \cup
    {Emit(PollRoom(p), "pollUpdate", p), Emit(AllSockets, "pollUpdate", p)}

\* POST /api/polls/:id/vote when the save inside createNotification throws:
\* createNotification catches and returns null, the handler goes on
VoteSaveFails(u, p, o) ==
    /\ VoteStatus(u, p, o) = 200
    /\ VoteNotifies(u, polls[p])
    /\ VoteRecorded(u, p, o)
    /\ nextNotif' = nextNotif + 1
    /\ UNCHANGED <<notifications, comments, nextPoll, nextComment>>

\* its response: res.json({ message: 'Vote recorded successfully', poll })
VoteSaveFailsStatus(u, p, o) == 200

VoteSaveFailsEmits(u, p, o) ==
    {Emit(PollRoom(p), "pollUpdate", p), Emit(AllSockets, "pollUpdate", p)}

\* POST /api/comments; dup: the duplicate check finds an identical comment of
\* the same user posted in the last five seconds
PostCommentStatus(u, p, parent, dup) ==
    IF p \notin DOMAIN polls THEN 404
    ELSE IF polls[p].status = "draft" /\ polls[p].creator # u THEN 403
    ELSE IF polls[p].status = "closed" THEN 403
    ELSE IF dup /\ \E c \in DOMAIN comments :
                      /\ comments[c].user = u
                      /\ comments[c].poll_id = p
                      /\ comments[c].parent_comment_id = parent
         THEN 429
    ELSE 201

CountComments(cs, p) == Cardinality({c \in DOMAIN cs : cs[c].poll_id = p})

\* the comment handler notifies the poll creator unless the author is the creator
CommentNotifies(u, poll) == poll.creator # u

CommentNotification(u, p, parent) ==
    LET id == CommentId(nextComment + 1)
    IN  IF parent # NoParent
        THEN CreateNotification("reply",
                 [replierName |-> u, pollTitle |-> polls[p].title,
                  pollId |-> p, commentId |-> id], polls[p].creator)
        ELSE CreateNotification("comment",
                 [commenterName |-> u, pollTitle |-> polls[p].title,
                  pollId |-> p, commentId |-> id], polls[p].creator)

PostComment(u, p, parent, dup) ==
    /\ PostCommentStatus(u, p, parent, dup) = 201
    /\ CanCreate
    /\ CommentNotifies(u, polls[p]) => CanNotify
    /\ LET id == CommentId(nextComment + 1)
           comment == [user |-> u, poll_id |-> p, parent_comment_id |-> parent,
                       likes |-> 0, liked_by |-> {}, replies |-> {}]
           linked == [c \in DOMAIN comments |->
                         IF parent # NoParent /\ c = parent
                         THEN [comments[c] EXCEPT !.replies = @ \cup {id}]
                         ELSE comments[c]]
           saved == linked @@ (id :> comment)
       IN  /\ comments' = saved
           /\ nextComment' = nextComment + 1
           /\ polls' = [polls EXCEPT ![p].comments_count = CountComments(saved, p)]
    /\ IF CommentNotifies(u, polls[p])
       THEN /\ notifications' = Append(notifications,
                                       CommentNotification(u, p, parent).saved)
            /\ nextNotif' = nextNotif + 1
       ELSE UNCHANGED <<notifications, nextNotif>>
    /\ UNCHANGED <<votes, nextPoll, nextVote>>

PostCommentEmits(u, p, parent, dup) ==
    (IF CommentNotifies(u, polls[p])
     THEN CommentNotification(u, p, parent).emits ELSE {}) \cup
    {Emit(PollRoom(p), "newComment", CommentId(nextComment + 1))}

Max(a, b) == IF a >= b THEN a ELSE b

\* POST /api/comments/:id/like
LikeCommentStatus(u, c) == IF c \notin DOMAIN comments THEN 404 ELSE 200

\* the like handler notifies the comment author unless the liker is the author
\* (and only when the comment's poll is found)
LikeNotifies(u, comment) ==
    /\ comment.user # u
    /\ comment.poll_id \in DOMAIN polls

LikeNotification(u, c) ==
    CreateNotification("comment_like",
        [likerName |-> u, pollTitle |-> polls[comments[c].poll_id].title,
         pollId |-> comments[c].poll_id, commentId |-> c],
        comments[c].user)

LikeComment(u, c) ==
    /\ LikeCommentStatus(u, c) = 200
    /\ IF u \in comments[c].liked_by
       THEN /\ comments' = [comments EXCEPT ![c].liked_by = @ \ {u},
                                            ![c].likes = Max(0, @ - 1)]
            /\ UNCHANGED <<notifications, nextNotif>>
       ELSE /\ LikeNotifies(u, comments[c]) => CanNotify
            /\ comments' = [comments EXCEPT ![c].liked_by = @ \cup {u},
                                            ![c].likes = @ + 1]
            /\ IF LikeNotifies(u, comments[c])
               THEN /\ notifications' = Append(notifications,
                                               LikeNotification(u, c).saved)
                    /\ nextNotif' = nextNotif + 1
               ELSE UNCHANGED <<notifications, nextNotif>>
    /\ UNCHANGED <<polls, votes, nextPoll, nextVote, nextComment>>

LikeCommentEmits(u, c) ==
    (IF u \notin comments[c].liked_by /\ LikeNotifies(u, comments[c])
     THEN LikeNotification(u, c).emits ELSE {}) \cup
    {Emit(PollRoom(comments[c].poll_id), "commentLikeUpdate", c)}

\* DELETE /api/comments/:id
DeleteCommentStatus(u, c) ==
    IF c \notin DOMAIN comments THEN 404
    ELSE IF comments[c].user # u THEN 403
    ELSE 200

DeleteComment(u, c) ==
    /\ DeleteCommentStatus(u, c) = 200
    /\ LET comment == comments[c]
           gone == IF comment.parent_comment_id = NoParent
                   THEN {c} \cup {d \in DOMAIN comments :
                                     comments[d].parent_comment_id = c}
                   ELSE {c}
           kept == [d \in DOMAIN comments \ gone |->
                      IF comment.parent_comment_id # NoParent
                         /\ d = comment.parent_comment_id
                      THEN [comments[d] EXCEPT !.replies = @ \ {c}]
                      ELSE comments[d]]
           p == comment.poll_id
       IN  /\ comments' = kept
           /\ polls' = IF p \in DOMAIN polls
                       THEN [polls EXCEPT ![p].comments_count = CountComments(kept, p)]
                       ELSE polls
    /\ UNCHANGED <<votes, notifications, nextPoll, nextVote, nextComment, nextNotif>>

DeleteCommentEmits(u, c) ==
    {Emit(PollRoom(comments[c].poll_id), "commentDeleted", c)}

---------------------------------------------------------------------------
(* Notification routes *)
\* mutant: a sort that keeps the insertion order
OldestFirst(s) == s

\* sort({ timestamp: -1 }): timestamps grow with the insertion order
Reverse(s) == [i \in 1..Len(s) |-> s[Len(s) + 1 - i]]

DefaultLimit == 50      \* const { limit = 50, ... } = req.query

\* limit(n)
Limit(s, n) == IF Len(s) <= n THEN s ELSE SubSeq(s, 1, n)

\* mutant: a filter on the id alone
OwnedAny(n, u, id) == n.id = id

\* the filter { id: req.params.id, userId: req.user.id }
Owned(n, u, id) == n.id = id /\ n.userId = u

\* GET /api/notifications: newest first (timestamp is the insertion order)
\* the 'read' alias of isRead added to each listed record
Normalized(n) ==
    [f \in DOMAIN n \cup {"read"} |-> IF f = "read" THEN n.isRead ELSE n[f]]

GetNotifications(u, unreadOnly) ==
    LET found == Limit(Reverse(SelectSeq(notifications,
                           LAMBDA n : n.userId = u /\ (unreadOnly => ~n.isRead))),
                       DefaultLimit)
    IN  Reply("list", 200, [i \in 1..Len(found) |-> Normalized(found[i])])

\* mutant: an update that toggles the flag
MarkReadToggle(n) == [n EXCEPT !.isRead = ~@]

\* findOneAndUpdate({ id, userId }, { isRead: true }, { new: true })
MarkReadUpdate(n) == [n EXCEPT !.isRead = TRUE]

\* PATCH /api/notifications/:id/read: the response
MarkReadReply(u, id) ==
    IF ~\E i \in 1..Len(notifications) : Owned(notifications[i], u, id)
    THEN Error("markRead", 404)
    ELSE LET i == CHOOSE j \in 1..Len(notifications) :
                      Owned(notifications[j], u, id)
         IN  Reply("markRead", 200, MarkReadUpdate(notifications[i]))

\* PATCH /api/notifications/:id/read: the collection after the update
MarkReadStore(u, id) ==
    [i \in 1..Len(notifications) |->
        IF Owned(notifications[i], u, id)
        THEN MarkReadUpdate(notifications[i])
        ELSE notifications[i]]

\* PATCH /api/notifications/:id/read
MarkRead(u, id) ==
    /\ MarkReadReply(u, id).status = 200
    /\ notifications' = MarkReadStore(u, id)
    /\ UNCHANGED <<polls, votes, comments,
                   nextPoll, nextVote, nextComment, nextNotif>>

MarkReadEmits(u, id) == {Emit(UserRoom(u), "notificationRead", id)}

\* mutant: an update filtered on isRead alone
MarkAllReadMatchedAnyUser(u) ==
    {i \in 1..Len(notifications) : ~notifications[i].isRead}

\* PATCH /api/notifications/mark-all-read
MarkAllReadMatched(u) ==
    {i \in 1..Len(notifications) :
        notifications[i].userId = u /\ ~notifications[i].isRead}

MarkAllReadReply(u) == Reply("markAllRead", 200, Cardinality(MarkAllReadMatched(u)))

MarkAllRead(u) ==
    /\ notifications' = [i \in 1..Len(notifications) |->
                           IF i \in MarkAllReadMatched(u)
                           THEN [notifications[i] EXCEPT !.isRead = TRUE]
                           ELSE notifications[i]]
    /\ UNCHANGED <<polls, votes, comments,
                   nextPoll, nextVote, nextComment, nextNotif>>

MarkAllReadEmits(u) == {Emit(UserRoom(u), "allNotificationsRead", "")}

\* DELETE /api/notifications/:id: the response
DeleteNotificationReply(u, id) ==
    IF ~\E i \in 1..Len(notifications) : Owned(notifications[i], u, id)
    THEN Error("delete", 404)
    ELSE Reply("delete", 200, "Notification deleted successfully")

\* DELETE /api/notifications/:id: the collection after findOneAndDelete
DeleteNotificationStore(u, id) ==
    SelectSeq(notifications, LAMBDA n : ~Owned(n, u, id))

\* DELETE /api/notifications/:id
DeleteNotification(u, id) ==
    /\ DeleteNotificationReply(u, id).status = 200
    /\ notifications' = DeleteNotificationStore(u, id)
    /\ UNCHANGED <<polls, votes, comments,
                   nextPoll, nextVote, nextComment, nextNotif>>

\* DELETE /api/notifications/clear-all, the handler: deleteMany({ userId })
ClearAllHandlerReply(u) ==
    Reply("clearAll", 200,
          Cardinality({i \in 1..Len(notifications) : notifications[i].userId = u}))

ClearAllHandlerStore(u) == SelectSeq(notifications, LAMBDA n : n.userId # u)

\* Express hands a request to the first registered route that matches:
\* DELETE /api/notifications/:id is registered before
\* DELETE /api/notifications/clear-all and matches it with id "clear-all"
ClearAllReply(u) == DeleteNotificationReply(u, ClearAllPath)

ClearAllStore(u) == DeleteNotificationStore(u, ClearAllPath)

---------------------------------------------------------------------------
(* Automatic poll closure *)

CronNotification(p) ==
    CreateNotification("poll_closed",
                       [pollTitle |-> polls[p].title, pollId |-> p,
                        reason |-> "automatic_closure"],
                       polls[p].creator)

\* one iteration of the cron job's loop over the expired active polls; no
\* other code reads ends_at, so the clock is the choice of when this runs:
\* a poll with an end date is expired from the moment the clock passes it
CronClosePoll(p) ==
    /\ p \in DOMAIN polls
    /\ polls[p].status = "active"
    /\ polls[p].ends_at = "date"
    /\ CanNotify
    /\ polls' = [polls EXCEPT ![p].status = "closed",
                              ![p].ends_at = "null"]
    /\ notifications' = Append(notifications, CronNotification(p).saved)
    /\ nextNotif' = nextNotif + 1
    /\ UNCHANGED <<votes, comments, nextPoll, nextVote, nextComment>>

CronClosePollEmits(p) ==
    CronNotification(p).emits \cup
    {Emit(PollRoom(p), "pollUpdate", p),
     Emit(AllSockets, "pollUpdate", p),
     Emit(PollRoom(p), "pollClosed", p)}

---------------------------------------------------------------------------
(* Spec: the server's REST handlers and the cron job *)
PollInputs == {PollId(i) : i \in 1..MaxDocs}
CommentInputs == {CommentId(i) : i \in 1..MaxDocs}
NotifInputs == {NotifId(i) : i \in 1..MaxNotifs}

InitServer ==
    /\ polls = <<>>
    /\ votes = {}
    /\ comments = <<>>
    /\ notifications = <<>>
    /\ nextPoll = 0
    /\ nextVote = 0
    /\ nextComment = 0
    /\ nextNotif = 0

InitSocket ==
    /\ conns = <<>>
    /\ rooms = <<>>
    /\ socketLog = "none"
    /\ emitted = {}

InitClient ==
    /\ cstate = [notifications |-> <<>>, unreadCount |-> 0,
                 loading |-> FALSE, error |-> "null"]
    /\ pushQ = {}
    /\ readEvt = {}
    /\ fetchResp = {}
    /\ restResp = {}

\* new CircuitBreaker(): threshold 5, resetTimeout 60000
InitBreaker ==
    /\ breaker = [state |-> "CLOSED", failureCount |-> 0, lastFailureTime |-> 0]
    /\ clock = 0
    /\ inExecute = 0

Init ==
    /\ InitServer /\ InitSocket /\ InitClient
    /\ cronJobs = <<>>
    /\ voteReqs = {}
    /\ InitBreaker

DoCreatePoll ==
    /\ CanCreate
    /\ CanNotify
    /\ \E u \in Users, t \in Titles, s \in StatusInputs, e \in EndsInputs,
          m \in MultiInputs : CreatePoll(u, t, s, e, m)
DoPatchPollStatus ==
    \E u \in Users, p \in PollInputs, s \in StatusInputs :
        (s = "closed" => CanNotify) /\ PatchPollStatus(u, p, s)
DoDeletePoll == \E u \in Users, p \in PollInputs : DeletePoll(u, p)
DoVote ==
    \E u \in Users, p \in PollInputs, o \in OptionInputs :
        /\ VoteStatus(u, p, o) = 200
        /\ CanCreate
        /\ VoteNotifies(u, polls[p]) => CanNotify
        /\ Vote(u, p, o)
DoPostComment ==
    \E u \in Users, p \in PollInputs, c \in {NoParent} \cup CommentInputs, d \in BOOLEAN :
        PostComment(u, p, c, d)
DoLikeComment == \E u \in Users, c \in CommentInputs : LikeComment(u, c)
DoDeleteComment == \E u \in Users, c \in CommentInputs : DeleteComment(u, c)
DoMarkRead == \E u \in Users, id \in NotifInputs : MarkRead(u, id)
DoMarkAllRead == \E u \in Users : MarkAllRead(u)
DoDeleteNotification ==
    \E u \in Users, id \in NotifInputs \cup {ClearAllPath} : DeleteNotification(u, id)
DoCronClosePoll == \E p \in PollInputs : CronClosePoll(p)

ServerStep(A) == A /\ UNCHANGED <<socketVars, clientVars, cronJobs, auxVars>>

Next ==
    \/ ServerStep(DoCreatePoll)
    \/ ServerStep(DoPatchPollStatus)
    \/ ServerStep(DoDeletePoll)
    \/ ServerStep(DoVote)
    \/ ServerStep(DoPostComment)
    \/ ServerStep(DoLikeComment)
    \/ ServerStep(DoDeleteComment)
    \/ ServerStep(DoMarkRead)
    \/ ServerStep(DoMarkAllRead)
    \/ ServerStep(DoDeleteNotification)
    \/ ServerStep(DoCronClosePoll)

Spec == Init /\ [][Next]_vars

(***************************************************************************)
(* SpecEdit: the records that refer to a poll while the poll is edited and  *)
(* deleted: poll creation, the edit of the title, comments and replies,    *)
(* deletion of the poll or of a comment, and the marking of notifications. *)
(***************************************************************************)
EditTitles == {"t1", "t2"}

EditCreatePoll ==
    /\ nextPoll < MaxRoutePolls
    /\ CanCreate
    /\ CanNotify
    /\ \E u \in Users : CreatePoll(u, "t1", "active", "null", FALSE)

\* the edit form sends the poll back with another title
EditPutPoll ==
    \E u \in Users, p \in PollInputs, t \in EditTitles :
        /\ p \in DOMAIN polls
        /\ PutPoll(u, p, t, polls[p].status, polls[p].ends_at,
                   polls[p].allow_multiple_votes, polls[p].options)

NextEdit ==
    \/ ServerStep(EditCreatePoll)
    \/ ServerStep(EditPutPoll)
    \/ ServerStep(DoDeletePoll)
    \/ ServerStep(DoPostComment)
    \/ ServerStep(DoDeleteComment)
    \/ ServerStep(DoMarkRead)
    \/ ServerStep(DoMarkAllRead)

SpecEdit == Init /\ [][NextEdit]_vars

---------------------------------------------------------------------------
(* Claims about the REST handlers (Spec) *)

\* the notification records a step creates
Created ==
    {notifications'[j] : j \in {k \in 1..Len(notifications') :
        \A i \in 1..Len(notifications) : notifications[i].id # notifications'[k].id}}

\* the step is the vote, comment or like handler run for user u: it saves a
\* vote of u, a comment of u, or adds u to a comment's liked_by
UserTrigger(u) ==
    \/ \E v \in votes' \ votes : v.user = u
    \/ \E c \in DOMAIN comments' \ DOMAIN comments : comments'[c].user = u
    \/ \E c \in DOMAIN comments' \cap DOMAIN comments :
          u \in comments'[c].liked_by \ comments[c].liked_by

\* the step is the poll creation or poll status handler run for user u
OwnerTrigger(u) ==
    \/ \E t \in Titles, s \in StatusInputs, e \in EndsInputs, m \in MultiInputs :
          CreatePoll(u, t, s, e, m)
    \/ \E p \in PollInputs, s \in StatusInputs : PatchPollStatus(u, p, s)

C7_IsReadMonotonic ==
    [][\A i \in 1..Len(notifications) : \A j \in 1..Len(notifications') :
          (notifications[i].id = notifications'[j].id /\ notifications[i].isRead)
              => notifications'[j].isRead]_vars

\* a read notification is followed in the store by a notification created later
C7_Witness ==
    \E i, j \in 1..Len(notifications) :
        i < j /\ notifications[i].isRead /\ ~notifications[j].isRead

\* C10: mark-read on an already read notification of the caller answers 200
\* with the record, isRead = true, and leaves the collection as it is.
C10_MarkReadIdempotent ==
    \A u \in Users : \A i \in 1..Len(notifications) :
        (notifications[i].userId = u /\ notifications[i].isRead) =>
            LET id == notifications[i].id
            IN  /\ MarkReadReply(u, id).status = 200
                /\ MarkReadReply(u, id).body.isRead
                /\ MarkReadReply(u, id).body.id = id
                /\ MarkReadStore(u, id) = notifications

\* every notification of some user has been marked read
C10_Witness ==
    \E u \in Users :
        /\ \E i \in 1..Len(notifications) : notifications[i].userId = u
        /\ \A i \in 1..Len(notifications) :
              notifications[i].userId = u => notifications[i].isRead

---------------------------------------------------------------------------
(* Claims about the notification routes (Spec) *)

UnreadOf(u) ==
    {i \in 1..Len(notifications) : notifications[i].userId = u /\ ~notifications[i].isRead}

\* C11: mark-all-read for R answers with the number of R's notifications
\* that were unread before the call, changes no notification of another
\* recipient, and afterwards the unread-only list of R is empty.
C11_MarkAllRead ==
    [][\A u \in Users : (nextNotif' = nextNotif /\ MarkAllRead(u)) =>
          /\ MarkAllReadReply(u).status = 200
          /\ MarkAllReadReply(u).body = Cardinality(UnreadOf(u))
          /\ Len(notifications') = Len(notifications)
          /\ \A i \in 1..Len(notifications) :
                notifications[i].userId # u => notifications'[i] = notifications[i]
          /\ GetNotifications(u, TRUE)'.body = <<>>]_vars

\* R has an unread notification, and so has another recipient
C11_Witness ==
    \E u \in Users : UnreadOf(u) = {} /\
        (\E i \in 1..Len(notifications) : notifications[i].userId = u) /\
        (\E w \in Users \ {u} : UnreadOf(w) # {})

\* C12: a clear-all request of U, when U has notifications, is answered with
\* 200 and the number of U's notifications, and removes them and no others.
C12_ClearAllDeletesOwn ==
    \A u \in Users :
        (\E i \in 1..Len(notifications) : notifications[i].userId = u) =>
            /\ ClearAllReply(u) = ClearAllHandlerReply(u)
            /\ ClearAllStore(u) = ClearAllHandlerStore(u)

AbsentId == "n0"

NotOwnedIds(u) ==
    {NotifId(k) : k \in 1..MaxNotifs} \ 
        {notifications[i].id : i \in {j \in 1..Len(notifications) : notifications[j].userId = u}}

\* C13: mark-read and delete of an id that is not the caller's are answered
\* with 404, exactly as for an id that does not exist, and leave the
\* collection unchanged.
C13_ForeignIdNotFound ==
    \A u \in Users : \A id \in NotOwnedIds(u) :
        /\ MarkReadReply(u, id).status = 404
        /\ MarkReadReply(u, id) = MarkReadReply(u, AbsentId)
        /\ MarkReadStore(u, id) = notifications
        /\ DeleteNotificationReply(u, id).status = 404
        /\ DeleteNotificationReply(u, id) = DeleteNotificationReply(u, AbsentId)
        /\ DeleteNotificationStore(u, id) = notifications

\* an unread notification of another user exists
C13_Witness ==
    \E u \in Users : \E i \in 1..Len(notifications) :
        notifications[i].userId # u /\ ~notifications[i].isRead

---------------------------------------------------------------------------
(* SpecSocket: the socket.io session registry *)
ConnId(i) == "s" \o ToString(i)
ConnIds == {ConnId(i) : i \in 1..MaxConns}
JoinArgs == Users                   \* userId arguments of 'join'
JoinPollArgs == {"p1", "u1"}        \* pollId arguments of 'joinPoll', 'leavePoll'
NotifyTypes == {"vote", "poll_closed"}

\* handshake credentials: present, number of dot-separated parts, what
\* jwt.verify makes of it, and the id of its payload
Token(present, parts, verify, id) ==
    [present |-> present, parts |-> parts, verify |-> verify, id |-> id]
Tokens ==
    {Token(FALSE, 0, "", ""), Token(TRUE, 2, "", ""),
     Token(TRUE, 3, "JsonWebTokenError", ""),
     Token(TRUE, 3, "TokenExpiredError", ""),
     Token(TRUE, 3, "NotBeforeError", "")}
    \cup {Token(TRUE, 3, "ok", u) : u \in Users}

\* mutant: a middleware that lets an expired token through
IoUseExpiredOk(token) ==
    IF ~token.present THEN "Authentication token required"
    ELSE IF token.parts # 3 THEN "Invalid token format"
    ELSE CASE token.verify \in {"ok", "TokenExpiredError"} -> "ok"
           [] token.verify = "JsonWebTokenError" -> "Invalid token"
           [] OTHER -> "Authentication failed"

\* io.use authentication middleware: the error passed to next, or "ok"
IoUse(token) ==
    IF ~token.present THEN "Authentication token required"
    ELSE IF token.parts # 3 THEN "Invalid token format"
    ELSE CASE token.verify = "ok" -> "ok"
           [] token.verify = "JsonWebTokenError" -> "Invalid token"
           [] token.verify = "TokenExpiredError" -> "Token expired"
           [] OTHER -> "Authentication failed"

\* mutant: a connection handler that leaves the room to the client's 'join'
NoAutoJoin(userId) == {}

\* io.on('connection'): the rooms the handler joins the socket to
AutoJoin(userId) == {UserRoom(userId)}

\* a handshake, and io.on('connection') when the middleware accepts it
Connect(c, token) ==
    /\ c \notin DOMAIN conns
    /\ IF IoUse(token) = "ok"
       THEN /\ conns' = conns @@ (c :> token.id)
            /\ rooms' = rooms @@ (c :> AutoJoin(token.id))
            /\ socketLog' = "joined notification room"
       ELSE /\ socketLog' = IoUse(token)
            /\ UNCHANGED <<conns, rooms>>
    /\ emitted' = {}

\* mutant: a 'join' handler that trusts the client's userId
JoinAny(c, userId) == TRUE

\* socket.on('join'): the userId must match the authenticated user
JoinAllowed(c, userId) == conns[c] = userId

\* socket.on('join')
Join(c, userId) ==
    /\ c \in DOMAIN conns
    /\ IF JoinAllowed(c, userId)
       THEN /\ rooms' = [rooms EXCEPT ![c] = @ \cup {UserRoom(userId)}]
            /\ socketLog' = "successfully joined room"
       ELSE /\ socketLog' = "Invalid join request"
            /\ UNCHANGED rooms
    /\ emitted' = {}
    /\ UNCHANGED conns

\* socket.on('joinPoll')
JoinPoll(c, pollId) ==
    /\ c \in DOMAIN conns
    /\ rooms' = [rooms EXCEPT ![c] = @ \cup {PollRoom(pollId)}]
    /\ emitted' = {}
    /\ UNCHANGED <<conns, socketLog>>

\* socket.on('leavePoll')
LeavePoll(c, pollId) ==
    /\ c \in DOMAIN conns
    /\ rooms' = [rooms EXCEPT ![c] = @ \ {PollRoom(pollId)}]
    /\ emitted' = {}
    /\ UNCHANGED <<conns, socketLog>>

\* socket.on('disconnect'): socket.io removes the socket from its rooms
Disconnect(c) ==
    /\ c \in DOMAIN conns
    /\ conns' = [d \in DOMAIN conns \ {c} |-> conns[d]]
    /\ rooms' = [d \in DOMAIN rooms \ {c} |-> rooms[d]]
    /\ emitted' = {}
    /\ UNCHANGED socketLog

NotifyData == [pollTitle |-> "t1", pollId |-> "p1"]

\* mutant: a createNotification that emits whatever the save did
TryCreateNotificationEmitFirst(type, data, userId, saveOk) ==
    [ok |-> saveOk,
     saved |-> CreateNotification(type, data, userId).saved,
     emits |-> CreateNotification(type, data, userId).emits]

\* createNotification with its try/catch: when notification.save() throws,
\* the catch logs, nothing is emitted and null is returned
TryCreateNotification(type, data, userId, saveOk) ==
    [ok |-> saveOk,
     saved |-> CreateNotification(type, data, userId).saved,
     emits |-> IF saveOk THEN CreateNotification(type, data, userId).emits ELSE {}]

\* a handler calls createNotification(type, data, userId); generateId runs
\* before the save
CreateNotificationCall(type, userId, saveOk) ==
    /\ nextNotif < MaxPushes
    /\ LET cn == TryCreateNotification(type, NotifyData, userId, saveOk)
       IN  /\ notifications' = IF cn.ok THEN Append(notifications, cn.saved)
                                ELSE notifications
           /\ nextNotif' = nextNotif + 1
           /\ emitted' = cn.emits
    /\ UNCHANGED <<polls, votes, comments, nextPoll, nextVote, nextComment>>

SocketStep(A) == A /\ UNCHANGED <<serverVars, clientVars, cronJobs, auxVars>>

DoConnect == \E c \in ConnIds, t \in Tokens : Connect(c, t)
DoJoin == \E c \in ConnIds, u \in JoinArgs : Join(c, u)
DoJoinPoll == \E c \in ConnIds, p \in JoinPollArgs : JoinPoll(c, p)
DoLeavePoll == \E c \in ConnIds, p \in JoinPollArgs : LeavePoll(c, p)
DoDisconnect == \E c \in ConnIds : Disconnect(c)
DoCreateNotificationCall ==
    \E t \in NotifyTypes, u \in Users, ok \in BOOLEAN :
        CreateNotificationCall(t, u, ok)

NextSocket ==
    \/ SocketStep(DoConnect)
    \/ SocketStep(DoJoin)
    \/ SocketStep(DoJoinPoll)
    \/ SocketStep(DoLeavePoll)
    \/ SocketStep(DoDisconnect)
    \/ DoCreateNotificationCall /\
          UNCHANGED <<conns, rooms, socketLog, clientVars, cronJobs, auxVars>>

SpecSocket == Init /\ [][NextSocket]_vars

---------------------------------------------------------------------------
(* SpecClient: one browser tab of user Me against the notification routes *)
\* NotificationService.getNotificationPriority
ClientGetNotificationPriority(type) ==
    CASE type = "system" -> "high"
      [] type = "reply" -> "medium"
      [] type = "comment" -> "medium"
      [] type = "vote" -> "low"
      [] type = "comment_like" -> "low"
      [] type = "poll_created" -> "low"
      [] type = "poll_closed" -> "medium"
      [] OTHER -> "low"

Me == "u1"
ClientSocket == ConnId(1)
RequestFailed == "Request failed"

Ids(list) == {list[i].id : i \in 1..Len(list)}
Unread(list) == Cardinality({i \in 1..Len(list) : ~list[i].isRead})

\* case SET_NOTIFICATIONS
SetNotifications(state, payload) ==
    [state EXCEPT !.notifications = payload,
                  !.unreadCount = Unread(payload),
                  !.loading = FALSE,
                  !.error = "null"]

\* mutant: a case that prepends the entry and leaves the counter alone
AddNotificationUncounted(state, payload) ==
    [state EXCEPT !.notifications =
                      <<[payload EXCEPT !.isRead = FALSE]>> \o state.notifications]

\* case ADD_NOTIFICATION: the payload's id and timestamp are set by the server
AddNotification(state, payload) ==
    [state EXCEPT !.notifications =
                      <<[payload EXCEPT !.isRead = FALSE]>> \o state.notifications,
                  !.unreadCount = state.unreadCount + 1]

\* case MARK_AS_READ
MarkAsRead(state, payload) ==
    LET updatedNotifications ==
            [i \in 1..Len(state.notifications) |->
                IF state.notifications[i].id = payload.id
                THEN [state.notifications[i] EXCEPT !.isRead = TRUE]
                ELSE state.notifications[i]]
    IN  [state EXCEPT !.notifications = updatedNotifications,
                      !.unreadCount = Unread(updatedNotifications)]

\* case MARK_ALL_AS_READ
MarkAllAsRead(state) ==
    [state EXCEPT !.notifications =
                      [i \in 1..Len(state.notifications) |->
                          [state.notifications[i] EXCEPT !.isRead = TRUE]],
                  !.unreadCount = 0]

\* case DELETE_NOTIFICATION
DeleteNotificationCase(state, payload) ==
    LET filteredNotifications ==
            SelectSeq(state.notifications, LAMBDA n : n.id # payload.id)
    IN  [state EXCEPT !.notifications = filteredNotifications,
                      !.unreadCount = Unread(filteredNotifications)]

\* case CLEAR_ALL
ClearAll(state) == [state EXCEPT !.notifications = <<>>, !.unreadCount = 0]

\* case SET_LOADING
SetLoading(state, payload) == [state EXCEPT !.loading = payload]

\* case SET_ERROR
SetError(state, payload) == [state EXCEPT !.error = payload, !.loading = FALSE]

\* case UPDATE_UNREAD_COUNT
UpdateUnreadCount(state, payload) == [state EXCEPT !.unreadCount = payload]

notificationReducer(state, action) ==
    CASE action.type = "SET_NOTIFICATIONS" -> SetNotifications(state, action.payload)
      [] action.type = "ADD_NOTIFICATION" -> AddNotification(state, action.payload)
      [] action.type = "MARK_AS_READ" -> MarkAsRead(state, action.payload)
      [] action.type = "MARK_ALL_AS_READ" -> MarkAllAsRead(state)
      [] action.type = "DELETE_NOTIFICATION" -> DeleteNotificationCase(state, action.payload)
      [] action.type = "CLEAR_ALL" -> ClearAll(state)
      [] action.type = "SET_LOADING" -> SetLoading(state, action.payload)
      [] action.type = "SET_ERROR" -> SetError(state, action.payload)
      [] action.type = "UPDATE_UNREAD_COUNT" -> UpdateUnreadCount(state, action.payload)
      [] OTHER -> state

Dispatch(type, payload) ==
    cstate' = notificationReducer(cstate, [type |-> type, payload |-> payload])

\* the socket is created, the handshake succeeds, and the 'connect' handler
\* clears the error and emits 'join' with the user's own id
ClientConnect ==
    /\ ClientSocket \notin DOMAIN conns
    /\ conns' = conns @@ (ClientSocket :> Me)
    /\ rooms' = rooms @@ (ClientSocket :> (AutoJoin(Me) \cup {UserRoom(Me)}))
    /\ socketLog' = "successfully joined room"
    /\ emitted' = {}
    /\ Dispatch("SET_ERROR", "null")
    /\ UNCHANGED <<serverVars, pushQ, readEvt, fetchResp, restResp>>

\* the connection drops: events on their way to the socket are lost
ClientDisconnect ==
    /\ Disconnect(ClientSocket)
    /\ pushQ' = {}
    /\ readEvt' = {}
    /\ UNCHANGED <<serverVars, cstate, fetchResp, restResp>>

\* createNotification on the server; the push travels to the tab when its
\* socket is among the recipients
ServerNotify(type, userId, saveOk) ==
    /\ CreateNotificationCall(type, userId, saveOk)
    /\ LET cn == TryCreateNotification(type, NotifyData, userId, saveOk)
       IN  pushQ' = IF \E e \in cn.emits : ClientSocket \in e.to
                    THEN pushQ \cup {cn.saved}
                    ELSE pushQ
    /\ UNCHANGED <<conns, rooms, socketLog, cstate, readEvt, fetchResp, restResp>>

\* socket.on('newNotification'): addNotification(notification)
RecvNewNotification(n) ==
    /\ n \in pushQ
    /\ pushQ' = pushQ \ {n}
    /\ Dispatch("ADD_NOTIFICATION", n)
    /\ UNCHANGED <<serverVars, socketVars, readEvt, fetchResp, restResp>>

\* fetchNotifications up to the server's answer: SET_LOADING, then GET
\* /api/notifications is served (ok) or fails. asOf records how many
\* notifications had been created when the list was computed.
FetchNotifications(ok) ==
    /\ Cardinality(fetchResp) + Cardinality(restResp) < MaxInFlight
    /\ Dispatch("SET_LOADING", TRUE)
    /\ fetchResp' = fetchResp \cup
          {IF ok
           THEN [status |-> 200, body |-> GetNotifications(Me, FALSE).body,
                 asOf |-> nextNotif]
           ELSE [status |-> 500, body |-> <<>>, asOf |-> 0]}
    /\ UNCHANGED <<serverVars, socketVars, pushQ, readEvt, restResp>>

\* fetchNotifications from the answer on: SET_NOTIFICATIONS, or SET_ERROR
FetchApply(r) ==
    /\ r \in fetchResp
    /\ fetchResp' = fetchResp \ {r}
    /\ IF r.status < 500
       THEN Dispatch("SET_NOTIFICATIONS", r.body)
       ELSE Dispatch("SET_ERROR", RequestFailed)
    /\ UNCHANGED <<serverVars, socketVars, pushQ, readEvt, restResp>>

RestResp(op, id, status) == [op |-> op, id |-> id, status |-> status]

CanSend(resp) ==
    /\ Cardinality(fetchResp) + Cardinality(restResp) < MaxInFlight
    /\ resp \notin restResp

\* markAsRead up to the server's answer: PATCH /api/notifications/:id/read
\* with its notificationRead emit; evts are the events still on their way
PatchRead(id, ok, evts) ==
    LET served == ok /\ MarkReadReply(Me, id).status = 200
        resp == RestResp("markAsRead", id,
                         IF ok THEN MarkReadReply(Me, id).status ELSE 500)
    IN  /\ CanSend(resp)
        /\ restResp' = restResp \cup {resp}
        /\ IF served
           THEN /\ MarkRead(Me, id)
                /\ emitted' = MarkReadEmits(Me, id)
                /\ readEvt' = IF \E e \in MarkReadEmits(Me, id) : ClientSocket \in e.to
                              THEN evts \cup {id}
                              ELSE evts
           ELSE /\ UNCHANGED serverVars
                /\ emitted' = {}
                /\ readEvt' = evts
        /\ UNCHANGED <<conns, rooms, socketLog, cstate, pushQ, fetchResp>>

\* the user marks a listed notification as read
ClickMarkAsRead(id, ok) ==
    /\ id \in Ids(cstate.notifications)
    /\ PatchRead(id, ok, readEvt)

\* socket.on('notificationRead'): markAsRead(data.notificationId)
RecvNotificationRead(id, ok) ==
    /\ id \in readEvt
    /\ PatchRead(id, ok, readEvt \ {id})

\* markAllAsRead up to the server's answer
ClickMarkAllAsRead(ok) ==
    LET resp == RestResp("markAllAsRead", "", IF ok THEN 200 ELSE 500)
    IN  /\ CanSend(resp)
        /\ restResp' = restResp \cup {resp}
        /\ IF ok
           THEN MarkAllRead(Me) /\ emitted' = MarkAllReadEmits(Me)
           ELSE UNCHANGED serverVars /\ emitted' = {}
        /\ UNCHANGED <<conns, rooms, socketLog, cstate, pushQ, readEvt, fetchResp>>

\* deleteNotification up to the server's answer
ClickDelete(id, ok) ==
    LET served == ok /\ DeleteNotificationReply(Me, id).status = 200
        resp == RestResp("delete", id,
                         IF ok THEN DeleteNotificationReply(Me, id).status ELSE 500)
    IN  /\ id \in Ids(cstate.notifications)
        /\ CanSend(resp)
        /\ restResp' = restResp \cup {resp}
        /\ IF served THEN DeleteNotification(Me, id) ELSE UNCHANGED serverVars
        /\ emitted' = {}
        /\ UNCHANGED <<conns, rooms, socketLog, cstate, pushQ, readEvt, fetchResp>>

\* clearAllNotifications up to the server's answer: DELETE
\* /api/notifications/clear-all is routed to DELETE /api/notifications/:id
ClickClearAll(ok) ==
    LET resp == RestResp("clearAll", "",
                         IF ok THEN DeleteNotificationReply(Me, ClearAllPath).status
                         ELSE 500)
    IN  /\ CanSend(resp)
        /\ restResp' = restResp \cup {resp}
        /\ emitted' = {}
        /\ UNCHANGED <<serverVars, conns, rooms, socketLog, cstate, pushQ, readEvt,
                       fetchResp>>

\* the answer to a PATCH or DELETE arrives: axios resolves every status
\* below 500, and the caller dispatches; above, the catch sets the error
RecvRestResp(r) ==
    /\ r \in restResp
    /\ restResp' = restResp \ {r}
    /\ IF r.status >= 500 THEN Dispatch("SET_ERROR", RequestFailed)
       ELSE CASE r.op = "markAsRead" -> Dispatch("MARK_AS_READ", [id |-> r.id])
              [] r.op = "markAllAsRead" -> Dispatch("MARK_ALL_AS_READ", "")
              [] r.op = "delete" -> Dispatch("DELETE_NOTIFICATION", [id |-> r.id])
              [] r.op = "clearAll" -> Dispatch("CLEAR_ALL", "")
    /\ UNCHANGED <<serverVars, socketVars, pushQ, readEvt, fetchResp>>

\* another session of the same user deletes a notification: DELETE
\* /api/notifications/:id, of which this tab hears nothing
OtherSessionDelete(id) ==
    /\ DeleteNotification(Me, id)
    /\ emitted' = {}
    /\ UNCHANGED <<conns, rooms, socketLog, clientVars>>

ClientNotifyTypes == {"vote"}
PushIds == {NotifId(i) : i \in 1..MaxPushes}

DoServerNotify ==
    \E t \in ClientNotifyTypes, ok \in BOOLEAN : ServerNotify(t, Me, ok)
DoRecvNewNotification == \E n \in pushQ : RecvNewNotification(n)
DoFetchNotifications == \E ok \in BOOLEAN : FetchNotifications(ok)
DoFetchApply == \E r \in fetchResp : FetchApply(r)
DoClickMarkAsRead == \E id \in PushIds, ok \in BOOLEAN : ClickMarkAsRead(id, ok)
DoRecvNotificationRead == \E id \in readEvt, ok \in BOOLEAN : RecvNotificationRead(id, ok)
DoClickMarkAllAsRead == \E ok \in BOOLEAN : ClickMarkAllAsRead(ok)
DoClickDelete == \E id \in PushIds, ok \in BOOLEAN : ClickDelete(id, ok)
DoClickClearAll == \E ok \in BOOLEAN : ClickClearAll(ok)
DoRecvRestResp == \E r \in restResp : RecvRestResp(r)
DoOtherSessionDelete == \E id \in PushIds : OtherSessionDelete(id)

ClientStep(A) == A /\ UNCHANGED <<cronJobs, auxVars>>

NextClient ==
    \/ ClientStep(ClientConnect)
    \/ ClientStep(ClientDisconnect)
    \/ ClientStep(DoServerNotify)
    \/ ClientStep(DoRecvNewNotification)
    \/ ClientStep(DoFetchNotifications)
    \/ ClientStep(DoFetchApply)
    \/ ClientStep(DoClickMarkAsRead)
    \/ ClientStep(DoRecvNotificationRead)
    \/ ClientStep(DoClickMarkAllAsRead)
    \/ ClientStep(DoClickDelete)
    \/ ClientStep(DoClickClearAll)
    \/ ClientStep(DoRecvRestResp)
    \/ ClientStep(DoOtherSessionDelete)

SpecClient == Init /\ [][NextClient]_vars

---------------------------------------------------------------------------
(* SpecLoop: the mark-read exchange between the tab and a server that      *)
(* answers every request.  The user marks a notification read only while  *)
(* the store has it unread, so the user starts finitely many exchanges.    *)
(* The socket handler and the continuation of a request run when their     *)
(* event arrives: weak fairness.                                           *)

\* the user clicks an entry the store still holds unread
LoopClick ==
    \E id \in PushIds :
        /\ \E i \in 1..Len(notifications) :
              notifications[i].id = id /\ ~notifications[i].isRead
        /\ ClickMarkAsRead(id, TRUE)

LoopServerNotify == \E t \in ClientNotifyTypes : ServerNotify(t, Me, TRUE)

LoopRecvNotificationRead == \E id \in readEvt : RecvNotificationRead(id, TRUE)

NextLoop ==
    \/ ClientStep(ClientConnect)
    \/ ClientStep(ClientDisconnect)
    \/ ClientStep(LoopServerNotify)
    \/ ClientStep(DoRecvNewNotification)
    \/ ClientStep(LoopClick)
    \/ ClientStep(LoopRecvNotificationRead)
    \/ ClientStep(DoRecvRestResp)
    \/ ClientStep(DoFetchNotifications)
    \/ ClientStep(DoFetchApply)
    \/ ClientStep(DoClickDelete)

SpecLoop ==
    /\ Init
    /\ [][NextLoop]_vars
    /\ WF_vars(ClientStep(LoopRecvNotificationRead))
    /\ WF_vars(ClientStep(DoRecvRestResp))

---------------------------------------------------------------------------
(* SpecBacklog: notifications pile up for user Me, whose tab connects and *)
(* disconnects but handles nothing                                         *)

\* createNotification('vote', data, Me) called by the vote handler
BacklogNotify ==
    /\ nextNotif < MaxBacklog
    /\ LET cn == CreateNotification("vote", NotifyData, Me)
       IN  /\ notifications' = Append(notifications, cn.saved)
           /\ nextNotif' = nextNotif + 1
           /\ emitted' = cn.emits
           /\ pushQ' = IF \E e \in cn.emits : ClientSocket \in e.to
                        THEN pushQ \cup {cn.saved}
                        ELSE pushQ
    /\ UNCHANGED <<polls, votes, comments, nextPoll, nextVote, nextComment,
                   conns, rooms, socketLog, cstate, readEvt, fetchResp, restResp>>

NextBacklog ==
    \/ ClientStep(ClientConnect)
    \/ ClientStep(ClientDisconnect)
    \/ ClientStep(BacklogNotify)

SpecBacklog == Init /\ [][NextBacklog]_vars

\* the stored notifications of u, oldest first
StoredFor(u) == SelectSeq(notifications, LAMBDA n : n.userId = u)

\* C14 as stated: every stored notification of the user is in the list that
\* GET /api/notifications returns.
C14_StoredIsListed ==
    \A i \in 1..Len(StoredFor(Me)) :
        StoredFor(Me)[i].id \in Ids(GetNotifications(Me, FALSE).body)

\* C14: a notification created while the user has no live connection is
\* appended to the store and pushed to nobody, and every stored notification
\* that is among the user's DefaultLimit newest is in the list that GET
\* /api/notifications returns.
C14_DurableWithoutDelivery ==
    /\ [](\A i \in 1..Len(StoredFor(Me)) :
            i > Len(StoredFor(Me)) - DefaultLimit =>
                StoredFor(Me)[i].id \in Ids(GetNotifications(Me, FALSE).body))
    /\ [][(BacklogNotify /\ ClientSocket \notin DOMAIN conns) =>
            /\ Len(notifications') = Len(notifications) + 1
            /\ notifications'[Len(notifications')].userId = Me
            /\ \A e \in emitted' : e.to = {}
            /\ pushQ' = pushQ]_vars

\* notifications were created for a user whose tab never connected
C14_Witness ==
    /\ Len(StoredFor(Me)) >= 2
    /\ socketLog = "none"
    /\ pushQ = {}

---------------------------------------------------------------------------
(* SpecPoll: a poll of user Me, its voters, its status changes and the     *)
(* closure job, with the sockets that receive the events.  Here the job is *)
(* the two steps it is in the code: the query for the expired polls, and   *)
(* the loop that closes what the query returned, one poll per iteration;   *)
(* requests are served between them.                                       *)
RoutePolls == {PollId(i) : i \in 1..MaxRoutePolls}
RoutedPoll == PollId(1)             \* the poll whose room the sockets join
RouteCanNotify == nextNotif < MaxRouteNotifs

RouteConnect ==
    \E c \in ConnIds, u \in Users : Connect(c, Token(TRUE, 3, "ok", u))

RouteJoinPoll == \E c \in ConnIds : JoinPoll(c, RoutedPoll)

RouteLeavePoll == \E c \in ConnIds : LeavePoll(c, RoutedPoll)

RouteCreatePoll ==
    /\ nextPoll < MaxRoutePolls
    /\ CanCreate
    /\ RouteCanNotify
    /\ \E e \in EndsInputs :
          /\ CreatePoll(Me, "t1", "active", e, FALSE)
          /\ emitted' = CreatePollEmits(Me, "t1", "active", e, FALSE)
    /\ UNCHANGED <<conns, rooms, socketLog, clientVars, cronJobs, auxVars>>

RouteVote ==
    /\ CanCreate
    /\ \E u \in Users, p \in RoutePolls, o \in OptionInputs :
          /\ VoteStatus(u, p, o) = 200
          /\ VoteNotifies(u, polls[p]) => RouteCanNotify
          /\ \/ Vote(u, p, o) /\ emitted' = VoteEmits(u, p, o)
             \/ VoteSaveFails(u, p, o) /\ emitted' = VoteSaveFailsEmits(u, p, o)
    /\ UNCHANGED <<conns, rooms, socketLog, clientVars, cronJobs, auxVars>>

RoutePatchPollStatus ==
    /\ \E u \in Users, p \in RoutePolls, st \in StatusInputs :
          /\ st = "closed" => RouteCanNotify
          /\ PatchPollStatus(u, p, st)
          /\ emitted' = PatchPollStatusEmits(u, p, st)
    /\ UNCHANGED <<conns, rooms, socketLog, clientVars, cronJobs, auxVars>>

\* Poll.find({ status: 'active', ends_at: { $lte: currentTime } })
ExpiredPolls ==
    SelectSeq([i \in 1..nextPoll |-> PollId(i)],
              LAMBDA p : /\ p \in DOMAIN polls
                         /\ polls[p].status = "active"
                         /\ polls[p].ends_at = "date")

\* the job starts: it keeps what the query returned
CronFind ==
    /\ Len(cronJobs) < MaxJobs
    /\ ExpiredPolls # <<>>
    /\ cronJobs' = Append(cronJobs, ExpiredPolls)
    /\ emitted' = {}
    /\ UNCHANGED <<serverVars, conns, rooms, socketLog, clientVars, auxVars>>

\* the job j without the poll at the head of its list
Advance(j) ==
    IF Len(cronJobs[j]) = 1
    THEN SelectSeq([k \in 1..Len(cronJobs) |-> IF k = j THEN <<>> ELSE cronJobs[k]],
                   LAMBDA job : job # <<>>)
    ELSE [cronJobs EXCEPT ![j] = Tail(@)]

\* one iteration of the loop of job j: the document the query returned is
\* set to closed and saved, whatever the stored status is by now
CronCloseNext(j) ==
    LET p == Head(cronJobs[j])
    IN  /\ RouteCanNotify
        /\ cronJobs' = Advance(j)
        /\ IF p \in DOMAIN polls
           THEN /\ polls' = [polls EXCEPT ![p].status = "closed",
                                          ![p].ends_at = "null"]
                /\ notifications' = Append(notifications, CronNotification(p).saved)
                /\ nextNotif' = nextNotif + 1
                /\ emitted' = CronClosePollEmits(p)
           ELSE /\ emitted' = {}
                /\ UNCHANGED <<polls, notifications, nextNotif>>
        /\ UNCHANGED <<votes, comments, nextPoll, nextVote, nextComment,
                       conns, rooms, socketLog, clientVars, auxVars>>

DoCronCloseNext == \E j \in 1..Len(cronJobs) : CronCloseNext(j)

NextPoll ==
    \/ SocketStep(RouteConnect)
    \/ SocketStep(RouteJoinPoll)
    \/ SocketStep(RouteLeavePoll)
    \/ SocketStep(DoDisconnect)
    \/ RouteCreatePoll
    \/ RouteVote
    \/ RoutePatchPollStatus
    \/ CronFind
    \/ DoCronCloseNext

SpecPoll == Init /\ [][NextPoll]_vars

---------------------------------------------------------------------------
(* SpecVote: the vote handler as the requests it serves at the same time.  *)
(* Every await of the handler ends a step: the handler reads the poll and  *)
(* looks for an existing vote, then saves the vote, then saves the poll    *)
(* document it read, with its counters incremented, and notifies.          *)
Slots == 1..MaxRequests

\* Poll.findOne, the status check, Vote.findOne, poll.options.find: the
\* request goes on with the poll document it has read
VoteBegin(u, p, o) ==
    /\ nextVote + Cardinality(voteReqs) < MaxVotes
    /\ VoteStatus(u, p, o) = 200
    /\ \E k \in Slots :
          /\ \A r \in voteReqs : r.slot # k
          /\ \A j \in Slots : j < k => \E r \in voteReqs : r.slot = j
          /\ voteReqs' = voteReqs \cup
                {[slot |-> k, user |-> u, poll_id |-> p, option_id |-> o,
                  poll |-> polls[p], pc |-> "vote"]}
    /\ emitted' = {}
    /\ UNCHANGED serverVars

\* await vote.save()
VoteSaveVote(r) ==
    /\ r.pc = "vote"
    /\ votes' = votes \cup {[id |-> VoteId(nextVote + 1), user |-> r.user,
                             poll_id |-> r.poll_id, option_id |-> r.option_id]}
    /\ nextVote' = nextVote + 1
    /\ voteReqs' = (voteReqs \ {r}) \cup {[r EXCEPT !.pc = "poll"]}
    /\ emitted' = {}
    /\ UNCHANGED <<polls, comments, notifications, nextPoll, nextComment, nextNotif>>

\* the notification of the handler, made from the document it has read
VoteDocNotification(r) ==
    CreateNotification("vote",
                       [voterName |-> r.user, pollTitle |-> r.poll.title,
                        pollId |-> r.poll_id],
                       r.poll.creator)

\* option.votes += 1; poll.total_votes += 1; await poll.save(): the save
\* writes the two counters of the document the handler holds; then
\* createNotification, the emits and the response
VoteSavePoll(r) ==
    /\ r.pc = "poll"
    /\ r.poll_id \in DOMAIN polls
    /\ polls' = [polls EXCEPT
                    ![r.poll_id].options[r.option_id] = r.poll.options[r.option_id] + 1,
                    ![r.poll_id].total_votes = r.poll.total_votes + 1]
    /\ IF VoteNotifies(r.user, r.poll)
       THEN /\ notifications' = Append(notifications, VoteDocNotification(r).saved)
            /\ nextNotif' = nextNotif + 1
            /\ emitted' = VoteDocNotification(r).emits \cup
                          {Emit(PollRoom(r.poll_id), "pollUpdate", r.poll_id),
                           Emit(AllSockets, "pollUpdate", r.poll_id)}
       ELSE /\ UNCHANGED <<notifications, nextNotif>>
            /\ emitted' = {Emit(PollRoom(r.poll_id), "pollUpdate", r.poll_id),
                           Emit(AllSockets, "pollUpdate", r.poll_id)}
    /\ voteReqs' = voteReqs \ {r}
    /\ UNCHANGED <<votes, comments, nextPoll, nextVote, nextComment>>

VoteStep(A) ==
    A /\ UNCHANGED <<conns, rooms, socketLog, clientVars, cronJobs,
                     breaker, clock, inExecute>>

VoteCreatePoll ==
    /\ nextPoll < MaxRoutePolls
    /\ CreatePoll(Me, "t1", "active", "null", FALSE)
    /\ emitted' = CreatePollEmits(Me, "t1", "active", "null", FALSE)
    /\ UNCHANGED voteReqs

DoVoteBegin ==
    \E u \in Users, p \in RoutePolls, o \in OptionInputs : VoteBegin(u, p, o)

DoVoteSaveVote == \E r \in voteReqs : VoteSaveVote(r)

DoVoteSavePoll == \E r \in voteReqs : VoteSavePoll(r)

\* the options array an edit sends: the options as the form loaded them, or
\* the option texts alone, which the handler normalizes to votes: 0
PutOptions(p) == {polls[p].options, [o \in Options |-> 0]}

VotePutPoll ==
    /\ \E p \in RoutePolls :
          /\ p \in DOMAIN polls
          /\ \E opts \in PutOptions(p) :
                /\ PutPoll(Me, p, "t1", "active", "null", FALSE, opts)
                /\ emitted' = PutPollEmits(Me, p, "t1", "active", "null", FALSE, opts)
    /\ UNCHANGED voteReqs

NextVote ==
    \/ VoteStep(VoteCreatePoll)
    \/ VoteStep(DoVoteBegin)
    \/ VoteStep(DoVoteSaveVote)
    \/ VoteStep(DoVoteSavePoll)
    \/ VoteStep(VotePutPoll)

SpecVote == Init /\ [][NextVote]_vars

---------------------------------------------------------------------------
(* SpecBreaker: the CircuitBreaker object of utils/api.js and the callers  *)
(* of its methods: execute (api.safeGet, retryRequest) and the response    *)
(* interceptors of the axios instance.  One tick of the clock is 30 s.     *)
FailureThreshold == 5   \* new CircuitBreaker(threshold = 5, ...)
ResetTimeout == 2       \* resetTimeout = 60000 ms, in ticks

\* CircuitBreaker.onSuccess
OnSuccess(b) == [b EXCEPT !.failureCount = 0, !.state = "CLOSED"]

\* CircuitBreaker.onFailure at time t
OnFailure(b, t) ==
    [b EXCEPT !.failureCount = @ + 1,
              !.lastFailureTime = t,
              !.state = IF b.failureCount + 1 >= FailureThreshold THEN "OPEN" ELSE @]

\* execute() rejects: the breaker is OPEN and resetTimeout has not elapsed
ExecuteRejects ==
    breaker.state = "OPEN" /\ ~(clock - breaker.lastFailureTime > ResetTimeout)

\* time passes
Tick ==
    /\ clock < MaxClock
    /\ clock' = clock + 1
    /\ UNCHANGED <<breaker, inExecute>>

\* execute(operation) up to the call of the operation
ExecuteBegin ==
    /\ inExecute < MaxExecute
    /\ ~ExecuteRejects
    /\ breaker' = IF breaker.state = "OPEN"
                  THEN [breaker EXCEPT !.state = "HALF_OPEN"]
                  ELSE breaker
    /\ inExecute' = inExecute + 1
    /\ UNCHANGED clock

\* execute(operation) while the breaker rejects: throws, nothing runs
ExecuteRejected ==
    /\ ExecuteRejects
    /\ UNCHANGED <<breaker, clock, inExecute>>

\* the operation's request is answered below 500: the response interceptor
\* calls onSuccess, then execute does
ExecuteSucceeds ==
    /\ inExecute > 0
    /\ breaker' = OnSuccess(OnSuccess(breaker))
    /\ inExecute' = inExecute - 1
    /\ UNCHANGED clock

\* the operation's request fails for good: the error interceptor calls
\* onFailure and rejects, then the catch of execute calls onFailure
ExecuteFails ==
    /\ inExecute > 0
    /\ breaker' = OnFailure(OnFailure(breaker, clock), clock)
    /\ inExecute' = inExecute - 1
    /\ UNCHANGED clock

\* a request a component sends with api.get/patch/delete, outside execute,
\* is answered below 500: the response interceptor calls onSuccess
ResponseSucceeds ==
    /\ breaker' = OnSuccess(breaker)
    /\ UNCHANGED <<clock, inExecute>>

BreakerStep(A) ==
    A /\ UNCHANGED <<serverVars, socketVars, clientVars, cronJobs, voteReqs>>

NextBreaker ==
    \/ BreakerStep(Tick)
    \/ BreakerStep(ExecuteBegin)
    \/ BreakerStep(ExecuteRejected)
    \/ BreakerStep(ExecuteSucceeds)
    \/ BreakerStep(ExecuteFails)
    \/ BreakerStep(ResponseSucceeds)

SpecBreaker == Init /\ [][NextBreaker]_vars

---------------------------------------------------------------------------
(* SpecFlow: the end-to-end path of a notification.  Users connect, create *)
(* polls, vote on them and mark their notifications read; every handler's  *)
(* emits are recorded with the sockets they reach.                         *)
FlowNotifs == {NotifId(i) : i \in 1..MaxRouteNotifs}

FlowConnect ==
    \E c \in ConnIds, u \in Users : Connect(c, Token(TRUE, 3, "ok", u))

FlowCreatePoll ==
    /\ nextPoll < MaxRoutePolls
    /\ CanCreate
    /\ RouteCanNotify
    /\ \E u \in Users, st \in StatusInputs :
          /\ CreatePoll(u, "t1", st, "null", FALSE)
          /\ emitted' = CreatePollEmits(u, "t1", st, "null", FALSE)
    /\ UNCHANGED <<conns, rooms, socketLog, clientVars, cronJobs, auxVars>>

FlowVote ==
    /\ CanCreate
    /\ \E u \in Users, p \in RoutePolls, o \in OptionInputs :
          /\ VoteStatus(u, p, o) = 200
          /\ VoteNotifies(u, polls[p]) => RouteCanNotify
          /\ Vote(u, p, o)
          /\ emitted' = VoteEmits(u, p, o)
    /\ UNCHANGED <<conns, rooms, socketLog, clientVars, cronJobs, auxVars>>

FlowMarkRead ==
    /\ \E u \in Users, id \in FlowNotifs :
          /\ MarkRead(u, id)
          /\ emitted' = MarkReadEmits(u, id)
    /\ UNCHANGED <<conns, rooms, socketLog, clientVars, cronJobs, auxVars>>

NextFlow ==
    \/ SocketStep(FlowConnect)
    \/ SocketStep(DoDisconnect)
    \/ FlowCreatePoll
    \/ FlowVote
    \/ FlowMarkRead

SpecFlow == Init /\ [][NextFlow]_vars

---------------------------------------------------------------------------
(* Claims about the session registry (SpecSocket) *)

\* C4: a connection authenticated as X is in no personal room but user_X,
\* whatever 'join', 'joinPoll' and 'leavePoll' events it sends, and a 'join'
\* for another identity leaves the room membership unchanged.
C4_NoForeignPersonalRoom ==
    /\ [](\A c \in DOMAIN conns : \A y \in (Users \cup JoinPollArgs) \ {conns[c]} :
            UserRoom(y) \notin rooms[c])
    /\ [][\A c \in ConnIds : \A y \in JoinArgs :
            (Join(c, y) /\ y # conns[c]) => rooms' = rooms]_vars

\* a 'join' for another identity was refused on a socket that is in a poll room
C4_Witness ==
    /\ socketLog = "Invalid join request"
    /\ \E c \in DOMAIN conns : \E a \in JoinPollArgs : PollRoom(a) \in rooms[c]

\* the record of a pushed notification
Pushed(e) ==
    notifications[CHOOSE i \in 1..Len(notifications) : notifications[i].id = e.payload]

\* C5: a newNotification push for recipient R goes to every live connection
\* authenticated as R and to no connection of another identity.
C5_PushToAllOwnSockets ==
    \A e \in emitted : e.event = "newNotification" =>
        e.to = {c \in DOMAIN conns : conns[c] = Pushed(e).userId}

\* a push reached two sockets of the recipient
C5_Witness ==
    \E e \in emitted : e.event = "newNotification" /\ Cardinality(e.to) >= 2

\* C15: every newNotification push carries a record that is in the store,
\* and a createNotification whose save fails emits nothing.
C15_AppendBeforeDeliver ==
    /\ [](\A e \in emitted : e.event = "newNotification" =>
            \E i \in 1..Len(notifications) : notifications[i].id = e.payload)
    /\ [][\A t \in NotifyTypes, u \in Users :
            CreateNotificationCall(t, u, FALSE) =>
                emitted' = {} /\ notifications' = notifications]_vars

\* a stored record was pushed to a socket
C15_Witness ==
    \E e \in emitted : e.event = "newNotification" /\ e.to # {} /\
        \E i \in 1..Len(notifications) : notifications[i].id = e.payload

\* C6: every live connection is a member of its personal room from the
\* handshake until it disconnects, whatever events the client sends.
C6_AlwaysInOwnRoom ==
    \A c \in DOMAIN conns : UserRoom(conns[c]) \in rooms[c]

\* a push reached a socket that has joined a poll room and sent no valid 'join'
C6_Witness ==
    /\ \E e \in emitted : e.event = "newNotification" /\
          \E c \in e.to : \E a \in JoinPollArgs : PollRoom(a) \in rooms[c]
    /\ socketLog # "successfully joined room"

---------------------------------------------------------------------------
(* Claims about the client's notification state (SpecClient) *)

Entries(list, id) == {i \in 1..Len(list) : list[i].id = id}

\* C2: applying a newNotification push for an id that is already in the
\* client's list leaves exactly one entry with that id and the same
\* unreadCount.
C2_PushMergeIdempotent ==
    [][\A n \in pushQ :
          (RecvNewNotification(n) /\ n.id \in Ids(cstate.notifications)) =>
              /\ Cardinality(Entries(cstate'.notifications, n.id)) = 1
              /\ cstate'.unreadCount = cstate.unreadCount]_vars

\* C3: when a fetch response is applied, every listed notification that was
\* created after the response was computed is still in the list.
C3_StaleFetchKeepsPushed ==
    [][\A r \in fetchResp :
          (FetchApply(r) /\ r.status = 200) =>
              \A k \in (r.asOf + 1)..MaxPushes :
                  NotifId(k) \in Ids(cstate.notifications) =>
                      NotifId(k) \in Ids(cstate'.notifications)]_vars

ShownRead(list, id) ==
    Entries(list, id) # {} /\ \A i \in Entries(list, id) : list[i].isRead

ShownUnread(list, id) == \E i \in Entries(list, id) : ~list[i].isRead

\* C8: once the client's list shows an id as read, no step makes an entry
\* with that id unread.
C8_ClientReadMonotonic ==
    [][\A id \in PushIds :
          ShownRead(cstate.notifications, id) =>
              ~ShownUnread(cstate'.notifications, id)]_vars

Consistent(state) == state.unreadCount = Unread(state.notifications)

Reduced(type, payload) ==
    Consistent(notificationReducer(cstate, [type |-> type, payload |-> payload]))

Reconnects ==
    /\ socketLog = "successfully joined room"
    /\ ClientSocket \notin DOMAIN conns
    /\ ClientSocket \in DOMAIN conns'

\* C17: when the client's socket reconnects after an involuntary disconnect,
\* the client rejoins its personal room and starts one fetch of the full
\* notification list.
C17_ReconnectRefetches ==
    [][Reconnects =>
          /\ UserRoom(Me) \in rooms'[ClientSocket]
          /\ cstate'.loading
          /\ Cardinality(fetchResp') = Cardinality(fetchResp) + 1]_vars

---------------------------------------------------------------------------
(* Claims about votes, status changes and the closure job (SpecPoll) *)

\* C16: when the save of the notification of a vote fails, the vote request
\* is answered as failed, not as successful.
C16_SaveFailureFailsRequest ==
    [][\A u \in Users, p \in RoutePolls, o \in OptionInputs :
          VoteSaveFails(u, p, o) => VoteSaveFailsStatus(u, p, o) >= 400]_vars

\* the poll_closed notifications a step creates
NewPollClosed ==
    {k \in (Len(notifications) + 1)..Len(notifications') :
        notifications'[k].type = "poll_closed"}

\* the polls whose stored status a step changes from active to closed
ClosedNow ==
    {p \in DOMAIN polls \cap DOMAIN polls' :
        polls[p].status = "active" /\ polls'[p].status = "closed"}

\* C18: every step creates as many poll_closed notifications as polls change
\* from active to closed in it, so the number of poll_closed notifications
\* is the number of such changes: one per expired poll the job closes, none
\* for a poll that is already closed.
C18_OnePollClosedPerClosure ==
    [][Cardinality(NewPollClosed) = Cardinality(ClosedNow)]_vars

\* the polls a step closes: closed afterwards, not closed before
BecomesClosed ==
    {p \in DOMAIN polls \cap DOMAIN polls' :
        polls[p].status # "closed" /\ polls'[p].status = "closed"}

Dispatched(room, event) ==
    \E e \in emitted' : e.room = room /\ e.event = event

\* C19: a step that closes a poll, by a status change of the creator or by
\* the closure job, dispatches pollUpdate and pollClosed to the poll's room
\* and newNotification to the creator's room.
C19_ClosureEvents ==
    [][\A p \in BecomesClosed :
          /\ Dispatched(PollRoom(p), "pollUpdate")
          /\ Dispatched(PollRoom(p), "pollClosed")
          /\ Dispatched(UserRoom(polls[p].creator), "newNotification")]_vars

\* the pollUpdate events of a step that reach connection c
PollUpdatesTo(c) == {e \in emitted' : e.event = "pollUpdate" /\ c \in e.to}

\* C20: a successful vote on poll p dispatches one pollUpdate to each
\* connection in p's room and none to a connection outside it.
C20_PollUpdateToRoomOnly ==
    [][\A u \in Users, p \in RoutePolls, o \in OptionInputs :
          VoteRecorded(u, p, o) /\ VoteStatus(u, p, o) = 200 =>
              \A c \in DOMAIN conns :
                  Cardinality(PollUpdatesTo(c)) =
                      IF PollRoom(p) \in rooms[c] THEN 1 ELSE 0]_vars

---------------------------------------------------------------------------
(* Claims about the handshake (SpecSocket) *)

\* the errors the middleware refuses a handshake with
Refusals == {"Authentication token required", "Invalid token format",
             "Invalid token", "Token expired", "Authentication failed"}

\* the sockets of the registry are those the middleware accepted: each has
\* the identity of a user, and only they are in rooms and receive events
OnlyAcceptedSockets ==
    /\ \A c \in DOMAIN conns : conns[c] \in Users
    /\ DOMAIN rooms = DOMAIN conns
    /\ \A e \in emitted : e.to \subseteq DOMAIN conns

\* C24: a handshake whose token is missing, malformed, expired or wrongly
\* signed is refused: it adds no socket, joins no room and receives no
\* event; only accepted sockets are sessions.
C24_RefusedHandshakeNoSession ==
    /\ []OnlyAcceptedSockets
    /\ [][\A c \in ConnIds, t \in Tokens :
             (IoUse(t) # "ok" /\ Connect(c, t)) =>
                 /\ socketLog' \in Refusals
                 /\ c \notin DOMAIN conns'
                 /\ c \notin DOMAIN rooms'
                 /\ UNCHANGED <<conns, rooms>>
                 /\ emitted' = {}]_vars

\* a handshake with an expired token has been refused while a slot was free
C24_Witness ==
    /\ socketLog = "Token expired"
    /\ Cardinality(DOMAIN conns) < MaxConns
    /\ DOMAIN conns # {}

---------------------------------------------------------------------------
(* Claims about the notification record (Spec) *)

\* the closed set of notification kinds
Kinds == {"vote", "comment", "reply", "comment_like",
          "poll_created", "poll_closed", "system"}

\* the priority the kind determines
PriorityOf(kind) ==
    IF kind = "system" THEN "high"
    ELSE IF kind \in {"comment", "reply", "poll_closed"} THEN "medium"
    ELSE "low"

\* C22: the priority of every stored notification is the one its kind
\* determines (system high; comment, reply, poll_closed medium; vote,
\* comment_like, poll_created low), and the server's and the client's
\* priority functions agree on every kind.
C22_PriorityByKind ==
    /\ \A i \in 1..Len(notifications) :
          /\ notifications[i].type \in Kinds
          /\ notifications[i].priority = PriorityOf(notifications[i].type)
    /\ \A k \in Kinds :
          /\ GetNotificationPriority(k) = PriorityOf(k)
          /\ ClientGetNotificationPriority(k) = GetNotificationPriority(k)

\* a medium and a low notification are stored
C22_Witness ==
    \E i, j \in 1..Len(notifications) :
        /\ notifications[i].priority = "medium"
        /\ notifications[j].priority = "low"

\* C23: once a notification is stored, no operation -- the edit of the
\* poll's title, the deletion of the poll or of a comment, mark-read,
\* mark-all-read -- changes its message, id, recipient, kind or priority;
\* the only field that changes is isRead.
C23_MessageFrozen ==
    [][\A i \in 1..Len(notifications) :
          /\ i <= Len(notifications')
          /\ [notifications'[i] EXCEPT !.isRead = notifications[i].isRead]
                = notifications[i]]_vars

\* a read notification carries a title its poll no longer has
C23_Witness ==
    \E i \in 1..Len(notifications) :
        /\ notifications[i].isRead
        /\ notifications[i].pollId \in DOMAIN polls
        /\ notifications[i].message[3] # polls[notifications[i].pollId].title

---------------------------------------------------------------------------
(* Claims about the end-to-end path (SpecFlow) *)

\* the ids list(u, {unreadOnly: true}) returns
UnreadListed(u) ==
    LET found == GetNotifications(u, TRUE).body
    IN  {found[i].id : i \in 1..Len(found)}

\* a vote of u on a poll of another user stores a vote notification for the
\* creator, low and unread, and pushes it to every socket of the creator
VoteReachesCreator(u, p) ==
    LET n == notifications'[Len(notifications')]
        creator == polls[p].creator
    IN  /\ Len(notifications') = Len(notifications) + 1
        /\ n.type = "vote"
        /\ n.userId = creator
        /\ n.priority = "low"
        /\ ~n.isRead
        /\ \A c \in DOMAIN conns :
              conns[c] = creator =>
                  \E e \in emitted' : /\ e.event = "newNotification"
                                      /\ e.payload = n.id
                                      /\ c \in e.to

\* a notification that is read stays read and out of its user's unread list
ReadStaysExcluded ==
    \A i \in 1..Len(notifications) :
        notifications[i].isRead =>
            /\ i <= Len(notifications')
            /\ notifications'[i].isRead
            /\ (notifications[i].id \notin UnreadListed(notifications[i].userId))'

NewPollsTo(c) == {e \in emitted' : e.event = "newPoll" /\ c \in e.to}

\* C25: the creation of a poll whose status is not draft dispatches newPoll
\* once to every connection; the creation of a draft poll, and every other
\* step, dispatches no newPoll.
C25_NewPollIffNotDraft ==
    [][\A c \in DOMAIN conns' :
          Cardinality(NewPollsTo(c)) =
              IF \E p \in DOMAIN polls' \ DOMAIN polls : polls'[p].status # "draft"
              THEN 1 ELSE 0]_vars

\* a draft poll has just been created while a socket is connected
C25_Witness ==
    /\ DOMAIN conns # {}
    /\ \E p \in DOMAIN polls : polls[p].status = "draft"
    /\ \E e \in emitted : e.event = "newNotification" /\ e.to # {}
    /\ ~\E e \in emitted : e.event = "newPoll"

---------------------------------------------------------------------------
(* Claims about the client's own mutations (SpecClient) *)

\* C26: when the server answers the client's mark-read or delete of a
\* notification with a failure (404, 500), the client's notification list
\* and unread count stay what they were.
C26_FailureLeavesLocalState ==
    [][\A r \in restResp :
          (/\ r.op \in {"markAsRead", "delete"}
           /\ r.status >= 400
           /\ RecvRestResp(r)) =>
              /\ cstate'.notifications = cstate.notifications
              /\ cstate'.unreadCount = cstate.unreadCount]_vars

\* no mark-read request and no notificationRead push is on its way
Quiescent ==
    /\ readEvt = {}
    /\ ~\E r \in restResp : r.op = "markAsRead"

\* C27: the mark-read requests and notificationRead pushes that the user's
\* mark-reads cause come to an end: from some point on none is on its way.
C27_MarkReadQuiesces == <>[]Quiescent

---------------------------------------------------------------------------
(* Claims about concurrent votes (SpecVote) *)

VotesOf(u, p) == {v \in votes : v.user = u /\ v.poll_id = p}

\* C28: on a poll with allow_multiple_votes false there is never more than
\* one Vote record of a user, also when the user's requests are served at
\* the same time.
C28_OneVotePerUser ==
    \A p \in DOMAIN polls :
        ~polls[p].allow_multiple_votes =>
            \A u \in Users : Cardinality(VotesOf(u, p)) <= 1

RECURSIVE SumVotes(_, _)
SumVotes(options, os) ==
    IF os = {} THEN 0
    ELSE LET o == CHOOSE x \in os : TRUE
         IN  options[o] + SumVotes(options, os \ {o})

\* C29: when no vote request is being served, every poll's total_votes is
\* the sum of its options' votes and the number of its Vote records.
C29_CountsAgree ==
    voteReqs = {} =>
        \A p \in DOMAIN polls :
            /\ polls[p].total_votes = SumVotes(polls[p].options, DOMAIN polls[p].options)
            /\ polls[p].total_votes = Cardinality({v \in votes : v.poll_id = p})

---------------------------------------------------------------------------
(* Claims about the circuit breaker (SpecBreaker) *)

\* C30: an OPEN breaker stays OPEN until resetTimeout has elapsed since the
\* last failure; then the next execute() moves it to HALF_OPEN, and nothing
\* else moves it out of OPEN.
C30_OpenUntilReset ==
    [][breaker.state = "OPEN" =>
          \/ breaker'.state = "OPEN"
          \/ /\ breaker'.state = "HALF_OPEN"
             /\ clock - breaker.lastFailureTime > ResetTimeout
             /\ inExecute' = inExecute + 1]_vars

====
